---- MODULE Spec2Model ----
(***************************************************************************)
(* Model of the music recommendation demo:                                 *)
(*   - MusicAgent (src/app/core/agent.py): intent detection, song-name     *)
(*     extraction, recommendation lookup, LLM formatting, completion       *)
(*     cleaning;                                                           *)
(*   - the API layer's POST /recommend handler (src/app/api/main.py);      *)
(*   - the HTTP client wrapper (src/app/ui/api_client.py).                 *)
(* A text is a sequence of atoms.  Messages and LLM completions are        *)
(* sequences of single characters; the fixed phrases the program emits     *)
(* are single atoms.                                                       *)
(***************************************************************************)
EXTENDS Integers, Sequences, FiniteSets, TLC

VARIABLES
    api_key,      \* MusicAgent.api_key: the credential resolved at construction
    llm,          \* MusicAgent.llm: "None" or "ChatGroq"
    user_input,   \* the message of the chat call being processed
    pc,           \* "received": chat not yet run on user_input; "replied": it has returned
    calls,        \* number of chat calls made on this agent so far
    outcome,      \* what the last chat call did: how it ended, its text, the calls it made
    raw,          \* a completion handed to _clean_thinking_tags
    cleaned,      \* its result, or NotCleaned
    apiRequest,   \* POST /recommend request body
    apiBackend,   \* what recommend_songs did for that request, or NoBackend
    apiResponse,  \* the HTTP response of the handler, or NoResponse
    clientCall,   \* the last APIClient operation run, with the transport's behaviour
    clientResult, \* how that operation ended
    chat_history, \* st.session_state.chat_history of one UI session
    ui_error      \* the text of the st.error shown by the last chat submission, "" if none

vars == <<api_key, llm, user_input, pc, calls, outcome, raw, cleaned,
          apiRequest, apiBackend, apiResponse, clientCall, clientResult,
          chat_history, ui_error>>

agentVars  == <<api_key, llm, user_input, pc, calls, outcome>>
cleanVars  == <<raw, cleaned>>
apiVars    == <<apiRequest, apiBackend, apiResponse>>
clientVars == <<clientCall, clientResult>>
uiVars     == <<chat_history, ui_error>>

----------------------------------------------------------------------------
(* Bounds *)

\* A message is made of at most MaxFrags fragments
MaxFrags == 4
\* A completion is made of at most MaxPieces pieces
MaxPieces == 5
\* A UI session takes chat submissions while its history is shorter than this
MaxHistory == 4
\* Number of chat calls made on one agent
MaxCalls == 3
\* The largest top_n of a /recommend request
MaxTopN == 3

----------------------------------------------------------------------------
(* Characters and texts *)

DQ == "\""
SQ == "'"
NL == "\n"
SP == " "

\* str.lower() on the characters the model uses
LowerChar(c) ==
    CASE c = "A" -> "a"
      [] c = "L" -> "l"
      [] OTHER   -> c

Lower(s) == [i \in 1..Len(s) |-> LowerChar(s[i])]

\* Python's str.isspace() on the characters the model uses
IsSpace(c) == c \in {SP, NL}

\* w occurs in s starting at position i
MatchAt(s, w, i) ==
    /\ i >= 1
    /\ i + Len(w) - 1 <= Len(s)
    /\ \A k \in 1..Len(w) : s[i + k - 1] = w[k]

\* Python's "w in s"
Contains(s, w) == \E i \in 1..(Len(s) + 1) : MatchAt(s, w, i)

\* str.strip()
Strip(s) ==
    LET keep == {i \in 1..Len(s) : ~IsSpace(s[i])}
    IN  IF keep = {} THEN <<>>
        ELSE LET lo == CHOOSE i \in keep : \A j \in keep : i <= j
                 hi == CHOOSE i \in keep : \A j \in keep : i >= j
             IN  SubSeq(s, lo, hi)

RECURSIVE Flatten(_)
Flatten(ss) == IF ss = <<>> THEN <<>> ELSE Head(ss) \o Flatten(Tail(ss))

Min(S) == CHOOSE x \in S : \A y \in S : x <= y
Max(S) == CHOOSE x \in S : \A y \in S : x >= y

----------------------------------------------------------------------------
(* Completion cleaning: MusicAgent._clean_thinking_tags *)

OpenTag  == <<"<", "t", "h", "i", "n", "k", ">">>
CloseTag == <<"<", "/", "t", "h", "i", "n", "k", ">">>

\* re.sub(r'<think>.*?</think>', '', response, flags=re.DOTALL), scanning from i:
\* the leftmost "<think>" that has a "</think>" after it is removed up to the
\* first such "</think>"; the scan resumes after the removed region.
RECURSIVE SubThink(_, _)
SubThink(s, i) ==
    IF i > Len(s) THEN <<>>
    ELSE LET ends == {j \in (i + Len(OpenTag))..Len(s) : MatchAt(s, CloseTag, j)}
         IN  IF MatchAt(s, OpenTag, i) /\ ends # {}
             THEN SubThink(s, Min(ends) + Len(CloseTag))
             ELSE <<s[i]>> \o SubThink(s, i + 1)

\* SubBlank with the pattern \n{3,}: only runs of three or more newlines collapse
RECURSIVE SubBlank_NewlinesOnly(_, _)
SubBlank_NewlinesOnly(s, i) ==
    IF i > Len(s) THEN <<>>
    ELSE LET ends == {j \in (i + 2)..Len(s) : \A k \in i..j : s[k] = NL}
         IN  IF ends # {}
             THEN <<NL, NL>> \o SubBlank_NewlinesOnly(s, Max(ends) + 1)
             ELSE <<s[i]>> \o SubBlank_NewlinesOnly(s, i + 1)

\* re.sub(r'\n\s*\n', '\n\n', cleaned), scanning from i: at a newline, \s* is
\* greedy, so the match runs to the last newline of the whitespace that follows.
RECURSIVE SubBlank(_, _)
SubBlank(s, i) ==
    IF i > Len(s) THEN <<>>
    ELSE LET ends == {j \in (i + 1)..Len(s) :
                        /\ s[j] = NL
                        /\ \A k \in (i + 1)..(j - 1) : IsSpace(s[k])}
         IN  IF s[i] = NL /\ ends # {}
             THEN <<NL, NL>> \o SubBlank(s, Max(ends) + 1)
             ELSE <<s[i]>> \o SubBlank(s, i + 1)

_clean_thinking_tags(response) == Strip(SubBlank(SubThink(response, 1), 1))

----------------------------------------------------------------------------
(* Song-name extraction: the two regular expressions of MusicAgent.chat *)

IsQuote(c) == c \in {DQ, SQ}

\* re.findall(r'["\']([^"\']+)["\']', s), scanning from i: a match starts at a
\* quote character followed by a non-empty run of non-quote characters that
\* is itself followed by a quote character (of either kind).
RECURSIVE FindAllQuoted(_, _)
FindAllQuoted(s, i) ==
    IF i > Len(s) THEN <<>>
    ELSE LET stops == {j \in (i + 1)..Len(s) : IsQuote(s[j])}
         IN  IF IsQuote(s[i]) /\ stops # {} /\ Min(stops) > i + 1
             THEN <<SubSeq(s, i + 1, Min(stops) - 1)>>
                      \o FindAllQuoted(s, Min(stops) + 1)
             ELSE FindAllQuoted(s, i + 1)

SimilarTo == <<"s", "i", "m", "i", "l", "a", "r", " ", "t", "o", " ">>

\* The positions q at which (?:\?|$|\.) matches: a "?" or "." at q, the end
\* of the string, or (Python's $) just before a newline that ends the string.
TailMatches(s, q) ==
    \/ q = Len(s) + 1
    \/ q <= Len(s) /\ s[q] \in {"?", "."}
    \/ q = Len(s) /\ s[q] = NL

\* The group of 'similar to (.+?)(?:\?|$|\.)' for a match that starts at i:
\* the shortest non-empty run of non-newline characters after "similar to "
\* that is followed by a tail match; NoMatch if there is none.
NoMatch == [found |-> FALSE, group |-> <<>>]

SimilarGroupAt(s, i) ==
    LET p == i + Len(SimilarTo)
        qs == {q \in (p + 1)..(Len(s) + 1) :
                  /\ \A k \in p..(q - 1) : s[k] # NL
                  /\ TailMatches(s, q)}
    IN  IF MatchAt(s, SimilarTo, i) /\ qs # {}
        THEN [found |-> TRUE, group |-> SubSeq(s, p, Min(qs) - 1)]
        ELSE NoMatch

\* re.search(r'similar to (.+?)(?:\?|$|\.)', s): the leftmost start that matches
SimilarSearch(s) ==
    LET starts == {i \in 1..Len(s) : SimilarGroupAt(s, i).found}
    IN  IF starts = {} THEN NoMatch ELSE SimilarGroupAt(s, Min(starts))

----------------------------------------------------------------------------
(* The collaborators of the agent: the similarity backend and the hosted LLM *)

\* top_n=5 in _get_recommendations
TopN == 5

Row(song, artist) == [song |-> song, artist |-> artist]

\* What one call of recommend_songs(song_name, top_n) can do: return None,
\* return a DataFrame (here: its rows, in order; <<>> is the empty frame),
\* or raise.
BackendOutcomes ==
    { [kind |-> "None", rows |-> <<>>, msg |-> <<>>],
      [kind |-> "df", rows |-> <<>>, msg |-> <<>>],
      [kind |-> "df",
       rows |-> <<Row(<<"b">>, <<"a">>), Row(<<"A">>, <<"c">>)>>, msg |-> <<>>],
      [kind |-> "raise", rows |-> <<>>, msg |-> <<"KeyError: 'song'">>] }

\* The completions the LLM returns in the model
Completions ==
    { <<"o", "k">>,
      OpenTag \o <<"x">> \o CloseTag \o <<NL, NL, NL, "o", "k", SP>> }

\* What one call of llm.invoke can do: return a completion, or raise
LlmOutcomes ==
    { [kind |-> "content", content |-> c, msg |-> <<>>] : c \in Completions }
        \cup { [kind |-> "raise", content |-> <<>>, msg |-> <<"RateLimitError">>] }

\* self.llm.invoke(messages): on a None handle the attribute access raises
Invoke(handle, l) ==
    IF handle = "None"
    THEN [kind |-> "raise", content |-> <<>>,
          msg |-> <<"'NoneType' object has no attribute 'invoke'">>]
    ELSE l

----------------------------------------------------------------------------
(* MusicAgent *)

\* Python truthiness of a credential value
Falsy(x) == x \in {"None", ""}

\* a or b
Or(a, b) == IF Falsy(a) THEN b ELSE a

\* MusicAgent.__init__ with _setup_agent: the agent's api_key and llm, given
\* the api_key argument, the GROQ_API_KEY variable and whether the ChatGroq
\* constructor succeeds.
MusicAgentInit(arg_key, env_key, setup_ok) ==
    LET key == Or(arg_key, env_key)
    IN  [api_key |-> key,
         llm |-> IF Falsy(key) THEN "None"
                 ELSE IF setup_ok THEN "ChatGroq" ELSE "None"]

ApologyText ==
    <<"I'm sorry, I cannot process your request because the Groq API key is missing or invalid.">>
NotFoundText == <<"Song not found in the database. Please try another song.">>
FetchErrorPrefix == <<"Error occurred while fetching recommendations: ">>
FormatErrorPrefix == <<"Could not format recommendations using LLM: ">>
ChatErrorPrefix == <<"I encountered an error while processing your request: ">>

FormatSystem ==
    "You are a helpful music assistant. Format the following recommendations in a friendly way."
GeneralSystem ==
    "You are a helpful music assistant. You can recommend songs based on lyrics similarity. Ask the user for a song name if they want recommendations."

\* the loop of _get_recommendations: "- <song> by <artist>\n" per row, in order
RECURSIVE RenderRows(_)
RenderRows(rows) ==
    IF rows = <<>> THEN <<>>
    ELSE <<"- ">> \o Head(rows).song \o <<" by ">> \o Head(rows).artist \o <<NL>>
             \o RenderRows(Tail(rows))

\* MusicAgent._get_recommendations, the backend doing b: the text it returns
_get_recommendations(song_name, b) ==
    IF b.kind = "raise" THEN FetchErrorPrefix \o b.msg
    ELSE IF b.kind = "None" \/ b.rows = <<>> THEN NotFoundText
    ELSE <<"Here are the recommended songs:\n">> \o RenderRows(b.rows)

\* The result of a step of chat: whether it raised, the text returned (or the
\* exception's message), the backend calls and the LLM calls made, in order.
Result(raised, text, backend_calls, llm_calls) ==
    [raised |-> raised, text |-> text,
     backend_calls |-> backend_calls, llm_calls |-> llm_calls]

\* MusicAgent._format_with_llm, the LLM doing l
_format_with_llm(handle, input, recommendations, l) ==
    IF handle = "None" THEN Result(FALSE, recommendations, <<>>, <<>>)
    ELSE LET prompt == [system |-> FormatSystem,
                        user |-> <<"The user asked: ">> \o input
                                    \o <<"\n\nRecommendations:\n">> \o recommendations]
             r == Invoke(handle, l)
         IN  IF r.kind = "raise"
             THEN Result(FALSE, FormatErrorPrefix \o r.msg, <<>>, <<prompt>>)
             ELSE Result(FALSE, _clean_thinking_tags(r.content), <<>>, <<prompt>>)

Keywords ==
    { <<"r", "e", "c", "o", "m", "m", "e", "n", "d">>,
      <<"s", "u", "g", "g", "e", "s", "t", "i", "o", "n">>,
      <<"s", "i", "m", "i", "l", "a", "r">>,
      <<"l", "i", "k", "e">> }

\* any(word in user_lower for word in [...])
HasKeyword(input) == \E w \in Keywords : Contains(Lower(input), w)

NoSong == [found |-> FALSE, song_name |-> <<>>, via |-> "none"]

\* The extraction of chat once a keyword is present: case 1, the first quoted
\* substring of the message; else case 2, "similar to X" on the lower-cased
\* message, stripped.
ExtractSong_SimilarFirst(input) ==
    LET quoted == FindAllQuoted(input, 1)
        similar_match == SimilarSearch(Lower(input))
    IN  IF similar_match.found
        THEN [found |-> TRUE, song_name |-> Strip(similar_match.group),
              via |-> "similar"]
        ELSE IF quoted # <<>>
        THEN [found |-> TRUE, song_name |-> quoted[1], via |-> "quoted"]
        ELSE NoSong

ExtractSong(input) ==
    LET quoted == FindAllQuoted(input, 1)
        similar_match == SimilarSearch(Lower(input))
    IN  IF quoted # <<>>
        THEN [found |-> TRUE, song_name |-> quoted[1], via |-> "quoted"]
        ELSE IF similar_match.found
        THEN [found |-> TRUE, song_name |-> Strip(similar_match.group),
              via |-> "similar"]
        ELSE NoSong

\* recommendations = self._get_recommendations(song_name);
\* return self._format_with_llm(user_input, recommendations)
Recommend(handle, input, song_name, b, l) ==
    LET recommendations == _get_recommendations(song_name, b)
        f == _format_with_llm(handle, input, recommendations, l)
    IN  Result(f.raised, f.text,
               <<[song_name |-> song_name, top_n |-> TopN, did |-> b]>>,
               f.llm_calls)

\* The general conversation fallback of chat
GeneralChat(handle, input, l) ==
    LET prompt == [system |-> GeneralSystem, user |-> input]
        r == Invoke(handle, l)
    IN  IF r.kind = "raise" THEN Result(TRUE, r.msg, <<>>, <<prompt>>)
        ELSE Result(FALSE, _clean_thinking_tags(r.content), <<>>, <<prompt>>)

\* ChatTry without the keyword test: the extraction alone decides the route
ChatTry_NoKeywordGate(handle, input, b, l) ==
    LET x == ExtractSong(input)
    IN  IF x.found
        THEN Recommend(handle, input, x.song_name, b, l)
        ELSE GeneralChat(handle, input, l)

\* The try block of chat
ChatTry(handle, input, b, l) ==
    LET x == ExtractSong(input)
    IN  IF HasKeyword(input) /\ x.found
        THEN Recommend(handle, input, x.song_name, b, l)
        ELSE GeneralChat(handle, input, l)

\* try ... except Exception as e: return f"I encountered an error ...: {str(e)}"
Catch(r) ==
    IF r.raised THEN [r EXCEPT !.raised = FALSE, !.text = ChatErrorPrefix \o r.text]
    ELSE r

chat_NoGate(handle, input, b, l) == Catch(ChatTry(handle, input, b, l))

chat_NoExcept(handle, input, b, l) ==
    IF handle = "None" THEN Result(FALSE, ApologyText, <<>>, <<>>)
    ELSE ChatTry(handle, input, b, l)

\* MusicAgent.chat(user_input), the backend doing b and the LLM doing l if called
chat(handle, input, b, l) ==
    IF handle = "None" THEN Result(FALSE, ApologyText, <<>>, <<>>)
    ELSE Catch(ChatTry(handle, input, b, l))

----------------------------------------------------------------------------
(* The messages the agent is given *)

Fragments ==
    << <<"L", "i", "k", "e">>, SimilarTo, <<DQ>>, <<SQ>>, <<"A">>, <<SP>>,
       <<"?">>, <<".">>, <<NL>> >>

\* Every message made of at most MaxFrags fragments
Messages ==
    { Flatten([i \in DOMAIN f |-> Fragments[f[i]]]) :
        f \in UNION { [1..n -> 1..Len(Fragments)] : n \in 0..MaxFrags } }

\* The messages of the later calls on the same agent
FollowUps ==
    { <<"A">>,
      <<"L", "i", "k", "e", SP, DQ, "A", DQ>>,
      SimilarTo \o <<"A", "?">> }

----------------------------------------------------------------------------
(* States in which a component is not in use *)

NoOutcome == Result(FALSE, <<>>, <<>>, <<>>)
NotCleaned == [done |-> FALSE, text |-> <<>>]
NoRequest == [song_name |-> <<>>, top_n |-> 0]
NoResponse == [status_code |-> 0, body |-> <<>>, detail |-> <<>>]
NoBackend == [kind |-> "none", rows |-> <<>>, msg |-> <<>>]
NoTransport == [kind |-> "none", status_code |-> 0, json |-> "none"]
NoCall == [op |-> "none", transport |-> NoTransport]
NoResult == [kind |-> "none", exc |-> "", msg |-> <<>>, value |-> ""]

AgentIdle ==
    /\ api_key = "None" /\ llm = "None" /\ user_input = <<>>
    /\ pc = "replied" /\ calls = 0 /\ outcome = NoOutcome
CleanIdle == raw = <<>> /\ cleaned = NotCleaned
ApiIdle == apiRequest = NoRequest /\ apiBackend = NoBackend /\ apiResponse = NoResponse
ClientIdle == clientCall = NoCall /\ clientResult = NoResult
UiIdle == chat_history = <<>> /\ ui_error = ""

----------------------------------------------------------------------------
(* The chat agent as a state machine *)

\* The values of the api_key argument and of GROQ_API_KEY
Credentials == {"None", "", "gsk"}

Init ==
    /\ \E arg_key \in Credentials, env_key \in Credentials, setup_ok \in BOOLEAN :
          LET a == MusicAgentInit(arg_key, env_key, setup_ok)
          IN  api_key = a.api_key /\ llm = a.llm
    /\ user_input \in Messages
    /\ pc = "received"
    /\ calls = 0
    /\ outcome = NoOutcome
    /\ CleanIdle /\ ApiIdle /\ ClientIdle /\ UiIdle

\* One call chat(user_input), whatever the backend and the LLM do in it
ChatCall ==
    /\ pc = "received"
    /\ \E b \in BackendOutcomes, l \in LlmOutcomes :
          outcome' = chat(llm, user_input, b, l)
    /\ pc' = "replied"
    /\ calls' = calls + 1
    /\ UNCHANGED <<api_key, llm, user_input, cleanVars, apiVars, clientVars, uiVars>>

\* The next message arrives for the same agent
NextMessage ==
    /\ pc = "replied"
    /\ calls < MaxCalls
    /\ user_input' \in FollowUps
    /\ pc' = "received"
    /\ outcome' = NoOutcome
    /\ UNCHANGED <<api_key, llm, calls, cleanVars, apiVars, clientVars, uiVars>>

Next == ChatCall \/ NextMessage

Spec == Init /\ [][Next]_vars

----------------------------------------------------------------------------
(* Properties of the chat agent, checked under Spec *)

\* The agent holds an LLM handle
Ready == llm # "None"

\* A chat call has returned (or raised) for user_input
Replied == pc = "replied" /\ calls > 0

\* The call reached the recommendation lookup
LookedUp == Replied /\ outcome.backend_calls # <<>>

\* What the backend did in the lookup of the last call
BackendDid == outcome.backend_calls[1].did

BackendNotFound == BackendDid.kind = "None" \/ (BackendDid.kind = "df" /\ BackendDid.rows = <<>>)

\* C1: in a Ready agent, when the lookup's backend result is None or empty,
\* chat returns exactly the "Song not found" text and makes no LLM call.
C1_NotFoundSkipsLlm ==
    (Ready /\ LookedUp /\ BackendNotFound)
        => (outcome.text = NotFoundText /\ outcome.llm_calls = <<>>)

\* C2: an agent constructed with no credential answers every chat call,
\* whatever the message and however many calls came before, with the fixed
\* apology, and calls neither the LLM nor the backend.
C2_NoCredentialApology ==
    (Falsy(api_key) /\ Replied)
        => outcome = Result(FALSE, ApologyText, <<>>, <<>>)

\* Witness of C2: a degraded agent has answered a later call whose message
\* asks for a recommendation
C2_Witness ==
    /\ Falsy(api_key) /\ Replied /\ calls >= 2
    /\ HasKeyword(user_input) /\ ExtractSong(user_input).found

\* C3: chat never propagates an exception: whatever the backend and the LLM
\* do, the call ends by returning a text.
C3_ChatNeverRaises == Replied => ~outcome.raised

\* Witness of C3: the LLM raised on the general-chat path and chat returned
\* the error text
C3_Witness ==
    /\ Ready /\ Replied
    /\ outcome.backend_calls = <<>>
    /\ outcome.llm_calls # <<>>
    /\ outcome.text = ChatErrorPrefix \o <<"RateLimitError">>

\* C4: when the backend raises during the lookup, the text "Error occurred
\* while fetching recommendations: <message>" is the response of chat.
C4_BackendErrorIsResponse ==
    (Ready /\ LookedUp /\ BackendDid.kind = "raise")
        => outcome.text = FetchErrorPrefix \o BackendDid.msg

\* The quoted substrings of s as pairs <<i, j>>: s[i] and s[j] are the same
\* quote mark, with at least one character and no mark of that kind between
QuotedPairs(s) ==
    { p \in (1..Len(s)) \X (1..Len(s)) :
        /\ p[1] + 1 < p[2]
        /\ IsQuote(s[p[1]])
        /\ s[p[2]] = s[p[1]]
        /\ \A k \in (p[1] + 1)..(p[2] - 1) : s[k] # s[p[1]] }

\* The first quoted substring of s: the one that opens first
FirstQuoted(s) ==
    LET p == CHOOSE x \in QuotedPairs(s) : \A y \in QuotedPairs(s) : x[1] <= y[1]
    IN  SubSeq(s, p[1] + 1, p[2] - 1)

\* C5: for a message with a trigger keyword and a quoted substring, the song
\* identifier passed to the backend is the first quoted substring of the
\* message, unchanged, whatever other quote marks the message holds.
C5_FirstQuotedExactly ==
    (Ready /\ Replied /\ HasKeyword(user_input) /\ QuotedPairs(user_input) # {})
        => /\ Len(outcome.backend_calls) = 1
           /\ outcome.backend_calls[1].song_name = FirstQuoted(user_input)

\* C6: when a message matches both the quoted pattern and the "similar to"
\* pattern, the lookup uses the quoted extraction, and the backend is called
\* exactly once.
C6_QuotedBeforeSimilar ==
    (/\ Ready /\ Replied /\ HasKeyword(user_input)
     /\ FindAllQuoted(user_input, 1) # <<>>
     /\ SimilarSearch(Lower(user_input)).found)
        => /\ Len(outcome.backend_calls) = 1
           /\ outcome.backend_calls[1].song_name = FindAllQuoted(user_input, 1)[1]
           /\ outcome.backend_calls[1].top_n = TopN

\* Witness of C6: both patterns matched, on different texts, and the lookup ran
C6_Witness ==
    /\ Ready /\ LookedUp
    /\ FindAllQuoted(user_input, 1) # <<>>
    /\ SimilarSearch(Lower(user_input)).found
    /\ Strip(SimilarSearch(Lower(user_input)).group) # FindAllQuoted(user_input, 1)[1]

\* The start of the first "similar to " of the lower-cased message, 0 if none
FirstSimilarTo(s) ==
    LET at == {i \in 1..Len(s) : MatchAt(Lower(s), SimilarTo, i)}
    IN  IF at = {} THEN 0 ELSE Min(at)

\* The lower-cased text after the first "similar to " up to the first
\* question mark, period or the end of the message, trimmed
SimilarToText(s) ==
    LET low == Lower(s)
        p == FirstSimilarTo(s) + Len(SimilarTo)
        stops == {q \in p..Len(s) : low[q] \in {"?", "."}} \cup {Len(s) + 1}
    IN  Strip(SubSeq(low, p, Min(stops) - 1))

\* C7: for a message with no quoted substring (here: no quote mark at all)
\* that holds "similar to " followed by at least one character, the backend
\* is called with SimilarToText of the message; multi-line messages included.
C7_SimilarToExtraction ==
    (/\ Ready /\ Replied
     /\ \A i \in 1..Len(user_input) : ~IsQuote(user_input[i])
     /\ FirstSimilarTo(user_input) > 0
     /\ FirstSimilarTo(user_input) + Len(SimilarTo) <= Len(user_input))
        => /\ Len(outcome.backend_calls) = 1
           /\ outcome.backend_calls[1].song_name = SimilarToText(user_input)

----------------------------------------------------------------------------
(* Completion cleaning as a state machine: one completion, cleaned once *)

Pieces ==
    << OpenTag, CloseTag, <<NL>>, <<SP>>, <<"a">>,
       <<"<", "t", "h", "i">>, <<"n", "k", ">">> >>

\* "<think>ignore this</think>Hello there"
ExampleThink ==
    OpenTag \o <<"i", "g", "n", "o", "r", "e", SP, "t", "h", "i", "s">> \o CloseTag
        \o <<"H", "e", "l", "l", "o", SP, "t", "h", "e", "r", "e">>

\* two lines of text with 4 consecutive newlines between them
ExampleNewlines == <<"a", NL, NL, NL, NL, "b">>

\* Every completion made of at most MaxPieces pieces, and the two examples
RawCompletions ==
    { Flatten([i \in DOMAIN f |-> Pieces[f[i]]]) :
        f \in UNION { [1..n -> 1..Len(Pieces)] : n \in 0..MaxPieces } }
      \cup {ExampleThink, ExampleNewlines}

InitClean ==
    /\ raw \in RawCompletions
    /\ cleaned = NotCleaned
    /\ AgentIdle /\ ApiIdle /\ ClientIdle /\ UiIdle

\* cleaned_response = self._clean_thinking_tags(response.content)
CleanCall ==
    /\ ~cleaned.done
    /\ cleaned' = [done |-> TRUE, text |-> _clean_thinking_tags(raw)]
    /\ UNCHANGED <<raw, agentVars, apiVars, clientVars, uiVars>>

NextClean == CleanCall

SpecClean == InitClean /\ [][NextClean]_vars

----------------------------------------------------------------------------
(* Properties of completion cleaning, checked under SpecClean *)

\* The characters of s at the positions K, in order
KeepAt(s, K) ==
    LET kept == SelectSeq([i \in 1..Len(s) |-> i], LAMBDA i : i \in K)
    IN  [n \in 1..Len(kept) |-> s[kept[n]]]

\* The start of the nearest "</think>" that follows the "<think>" at i, 0 if none
ThinkClose(s, i) ==
    LET js == {j \in (i + Len(OpenTag))..Len(s) : MatchAt(s, CloseTag, j)}
    IN  IF js = {} THEN 0 ELSE Min(js)

\* The regions <<first, last>> from a "<think>" to the nearest following
\* "</think>", taken from left to right starting at position from
RECURSIVE ThinkRegions(_, _)
ThinkRegions(s, from) ==
    LET os == {i \in from..Len(s) : MatchAt(s, OpenTag, i) /\ ThinkClose(s, i) > 0}
    IN  IF os = {} THEN {}
        ELSE LET last == ThinkClose(s, Min(os)) + Len(CloseTag) - 1
             IN  {<<Min(os), last>>} \cup ThinkRegions(s, last + 1)

\* Step 1 of cleaning: every such region removed, tags included
RemoveThinkRegions(s) ==
    LET regions == ThinkRegions(s, 1)
    IN  KeepAt(s, {k \in 1..Len(s) : \A r \in regions : k < r[1] \/ k > r[2]})

\* Step 2 as specified: each run of 3 or more consecutive newlines becomes
\* exactly two newlines (the third and later newlines of a run are dropped)
CollapseNewlineRuns(s) ==
    KeepAt(s, {k \in 1..Len(s) :
                 ~(k > 2 /\ s[k] = NL /\ s[k - 1] = NL /\ s[k - 2] = NL)})

\* Step 2 as the code does it: in a run of whitespace, what lies between its
\* first and its last newline is dropped, so that the two are adjacent
CollapseBlankLines(s) ==
    KeepAt(s, {k \in 1..Len(s) :
                 ~(\E f \in 1..(k - 1), l \in (k + 1)..Len(s) :
                      /\ s[f] = NL /\ s[l] = NL
                      /\ \A x \in f..l : IsSpace(s[x]))})

CleanAsSpecified(s) == Strip(CollapseNewlineRuns(RemoveThinkRegions(s)))
CleanAmended(s) == Strip(CollapseBlankLines(RemoveThinkRegions(s)))

ExamplesCleaned ==
    /\ raw = ExampleThink
          => cleaned.text = <<"H", "e", "l", "l", "o", SP, "t", "h", "e", "r", "e">>
    /\ raw = ExampleNewlines => cleaned.text = <<"a", NL, NL, "b">>

\* C8 as claimed: cleaning removes the think regions, then collapses every
\* run of 3 or more consecutive newlines to two newlines, then trims.
C8_CleanAsSpecified ==
    cleaned.done => (cleaned.text = CleanAsSpecified(raw) /\ ExamplesCleaned)

\* C8 as amended: cleaning removes the think regions, then in every run of
\* whitespace that holds two or more newlines replaces the stretch from the
\* first to the last newline by exactly two newlines, then trims; the two
\* examples of the claim come out as stated.
C8_CleanAmended ==
    cleaned.done => (cleaned.text = CleanAmended(raw) /\ ExamplesCleaned)

\* Witness of C8: a completion with a whitespace-only line between two
\* lines of text has been cleaned, and the two lines are now one blank line apart
C8_Witness ==
    /\ cleaned.done
    /\ Contains(raw, <<"a", NL, SP, NL, "a">>)
    /\ Contains(cleaned.text, <<"a", NL, NL, "a">>)

----------------------------------------------------------------------------
(* The API layer: POST /recommend *)

SongRecord(artist, song) ==
    [artist |-> artist, song |-> song, link |-> "None", text |-> "None"]

Catalog ==
    { SongRecord(<<"a">>, <<"A">>), SongRecord(<<"a">>, <<"b">>),
      SongRecord(<<"c">>, <<"b">>) }

\* The sequences of at most n distinct catalog records
RowsUpTo(n) ==
    { rs \in UNION { [1..k -> Catalog] : k \in 0..n } :
        \A i, j \in DOMAIN rs : i # j => rs[i] # rs[j] }

\* What recommend_songs(song_name, top_n) can do for the handler
ApiBackendOutcomes(top_n) ==
    { [kind |-> "None", rows |-> <<>>, msg |-> <<>>],
      [kind |-> "raise", rows |-> <<>>, msg |-> <<"KeyError: 'song'">>] }
        \cup { [kind |-> "df", rows |-> rs, msg |-> <<>>] : rs \in RowsUpTo(top_n) }

\* raise HTTPException(status_code=..., detail=...)
HTTPException(status_code, detail) ==
    [raised |-> TRUE, exc |-> "HTTPException", status_code |-> status_code,
     detail |-> detail, body |-> <<>>]

\* The try block of the handler get_recommendations
RecommendTry(request, b) ==
    IF b.kind = "raise"
    THEN [raised |-> TRUE, exc |-> "Exception", status_code |-> 0,
          detail |-> b.msg, body |-> <<>>]
    ELSE IF b.kind = "None" THEN HTTPException(404, <<"Song not found">>)
    ELSE [raised |-> FALSE, exc |-> "", status_code |-> 0, detail |-> <<>>,
          body |-> b.rows]

\* The handler with its except clauses: an HTTPException is re-raised, any
\* other exception becomes HTTPException(500)
api_get_recommendations(request, b) ==
    LET r == RecommendTry(request, b)
    IN  IF r.raised /\ r.exc = "HTTPException" THEN r
        ELSE IF r.raised THEN HTTPException(500, r.detail)
        ELSE r

\* The HTTP response the framework makes of the handler's result
HttpResponse(r) ==
    IF r.raised THEN [status_code |-> r.status_code, body |-> <<>>, detail |-> r.detail]
    ELSE [status_code |-> 200, body |-> r.body, detail |-> <<>>]

SongNames == {<<>>, <<"A">>, <<"b">>, <<"A", SP, "b">>}

InitApi ==
    /\ apiRequest \in [song_name : SongNames, top_n : 1..MaxTopN]
    /\ apiBackend = NoBackend
    /\ apiResponse = NoResponse
    /\ AgentIdle /\ CleanIdle /\ ClientIdle /\ UiIdle

\* POST /recommend handled, whatever the backend does
RecommendRequest ==
    /\ apiResponse = NoResponse
    /\ \E b \in ApiBackendOutcomes(apiRequest.top_n) :
          /\ apiBackend' = b
          /\ apiResponse' = HttpResponse(api_get_recommendations(apiRequest, b))
    /\ UNCHANGED <<apiRequest, agentVars, cleanVars, clientVars, uiVars>>

NextApi == RecommendRequest

SpecApi == InitApi /\ [][NextApi]_vars

\* C9: POST /recommend answers 404 whenever the backend result is None or
\* empty, answers with the backend's records in the backend's order
\* otherwise, and answers 500 only when something else failed.
C9_NotFoundIs404 ==
    apiResponse # NoResponse =>
        /\ (apiBackend.kind = "None" \/ (apiBackend.kind = "df" /\ apiBackend.rows = <<>>))
              => apiResponse.status_code = 404
        /\ (apiBackend.kind = "df" /\ apiBackend.rows # <<>>)
              => (apiResponse.status_code = 200 /\ apiResponse.body = apiBackend.rows)
        /\ apiResponse.status_code = 500 => apiBackend.kind = "raise"

----------------------------------------------------------------------------
(* The client wrapper: APIClient *)

StatusCodes == {200, 204, 304, 400, 404, 500}

\* What response.json() finds in the body: no JSON, an object with the key
\* the operation reads, an object without it, an array, a number
JsonBodies == {"invalid", "object", "object_nokey", "array", "number"}

\* What requests.get / requests.post can do
Transports ==
    { [kind |-> k, status_code |-> 0, json |-> "none"] :
        k \in {"ConnectionError", "Timeout", "TooManyRedirects"} }
      \cup { [kind |-> "response", status_code |-> c, json |-> j] :
               c \in StatusCodes, j \in JsonBodies }

Returned(v) == [kind |-> "return", exc |-> "", msg |-> <<>>, value |-> v]
Raised(e, m) == [kind |-> "raise", exc |-> e, msg |-> m, value |-> ""]

\* response.raise_for_status() raises HTTPError for 4xx and 5xx
RaisesForStatus(t) == t.status_code >= 400 /\ t.status_code < 600

\* response.json(), after raise_for_status
CheckedJson(t) ==
    IF RaisesForStatus(t) THEN Raised("HTTPError", <<"HTTPError">>)
    ELSE IF t.json = "invalid" THEN Raised("JSONDecodeError", <<"JSONDecodeError">>)
    ELSE Returned(t.json)

\* The except clauses shared by the operations: ConnectionError and Timeout
\* get their own messages, any other Exception the prefix and str(e)
Translate(r, connect_msg, timeout_msg, prefix) ==
    IF r.kind # "raise" THEN r
    ELSE IF r.exc = "ConnectionError" THEN Raised("APIError", <<connect_msg>>)
    ELSE IF r.exc = "Timeout" THEN Raised("APIError", <<timeout_msg>>)
    ELSE Raised("APIError", <<prefix>> \o r.msg)

check_health(t) ==
    Translate(IF t.kind # "response" THEN Raised(t.kind, <<t.kind>>) ELSE CheckedJson(t),
              "Cannot connect to API server. Is FastAPI running on port 8000?",
              "API health check timed out",
              "Health check failed: ")

\* The try block of APIClient.get_recommendations
RecommendationsTry(t) ==
    IF t.kind # "response" THEN Raised(t.kind, <<t.kind>>)
    ELSE IF t.status_code = 404 THEN Returned("None")
    ELSE LET j == CheckedJson(t)
         IN  IF j.kind = "return" /\ j.value = "number"
             THEN Raised("TypeError", <<"object of type 'int' has no len()">>)
             ELSE j

client_get_recommendations(t) ==
    LET r == RecommendationsTry(t)
    IN  IF r.kind = "raise" /\ r.exc = "HTTPError"
        THEN IF t.status_code = 404 THEN Returned("None")
             ELSE Raised("APIError", <<"API returned error: ", t.status_code>>)
        ELSE Translate(r,
                       "Cannot connect to API server. Please start FastAPI first.",
                       "Request timed out. The server might be overloaded.",
                       "Unexpected error: ")

\* result.get(key, default) on the decoded body
GetKey(j, default) ==
    IF j.kind # "return" THEN j
    ELSE IF j.value \in {"array", "number"}
    THEN Raised("AttributeError", <<"object has no attribute 'get'">>)
    ELSE IF j.value = "object" THEN Returned("value")
    ELSE Returned(default)

client_chat_with_assistant(t) ==
    Translate(IF t.kind # "response" THEN Raised(t.kind, <<t.kind>>)
              ELSE GetKey(CheckedJson(t), "No response received"),
              "Cannot connect to API server. Please start FastAPI first.",
              "Chat request timed out. Please try again.",
              "Chat error: ")

get_all_songs_NoStatusCheck(t) ==
    Translate(IF t.kind # "response" THEN Raised(t.kind, <<t.kind>>)
              ELSE GetKey(IF t.json = "invalid"
                          THEN Raised("JSONDecodeError", <<"JSONDecodeError">>)
                          ELSE Returned(t.json), "[]"),
              "Cannot connect to API server. Please start FastAPI first.",
              "Request timed out while fetching songs.",
              "Error fetching songs: ")

get_all_songs(t) ==
    Translate(IF t.kind # "response" THEN Raised(t.kind, <<t.kind>>)
              ELSE GetKey(CheckedJson(t), "[]"),
              "Cannot connect to API server. Please start FastAPI first.",
              "Request timed out while fetching songs.",
              "Error fetching songs: ")

ClientOps == {"check_health", "get_recommendations", "chat_with_assistant", "get_all_songs"}

\* The operation op of the client, the transport doing t
ClientRun(op, t) ==
    CASE op = "check_health" -> check_health(t)
      [] op = "get_recommendations" -> client_get_recommendations(t)
      [] op = "chat_with_assistant" -> client_chat_with_assistant(t)
      [] op = "get_all_songs" -> get_all_songs(t)

InitClient ==
    /\ clientCall = NoCall
    /\ clientResult = NoResult
    /\ AgentIdle /\ CleanIdle /\ ApiIdle /\ UiIdle

\* The UI calls one operation of api_client
ClientCall ==
    /\ \E op \in ClientOps, t \in Transports :
          /\ clientCall' = [op |-> op, transport |-> t]
          /\ clientResult' = ClientRun(op, t)
    /\ UNCHANGED <<agentVars, cleanVars, apiVars, uiVars>>

NextClient == ClientCall

SpecClient == InitClient /\ [][NextClient]_vars

Called == clientCall.op # "none"

IsAPIError(r) == r.kind = "raise" /\ r.exc = "APIError"

\* C10 as claimed: in each of the four operations a connection failure, a
\* timeout and every non-2xx status end in APIError; none of them is returned
\* as a value, and no other exception type escapes.
C10_FailuresRaiseAPIError ==
    Called =>
        /\ ( \/ clientCall.transport.kind \in {"ConnectionError", "Timeout"}
             \/ /\ clientCall.transport.kind = "response"
                /\ ~(clientCall.transport.status_code \in 200..299) )
              => IsAPIError(clientResult)
        /\ clientResult.kind = "raise" => clientResult.exc = "APIError"

\* C10 as amended: in each of the four operations a connection failure, a
\* timeout and every 4xx or 5xx status end in APIError, except that
\* get_recommendations returns None for status 404; no other exception type
\* escapes.
C10_Amended ==
    Called =>
        /\ ( \/ clientCall.transport.kind \in {"ConnectionError", "Timeout"}
             \/ /\ clientCall.transport.kind = "response"
                /\ clientCall.transport.status_code \in 400..599
                /\ ~(clientCall.op = "get_recommendations"
                       /\ clientCall.transport.status_code = 404) )
              => IsAPIError(clientResult)
        /\ (/\ clientCall.op = "get_recommendations"
            /\ clientCall.transport.kind = "response"
            /\ clientCall.transport.status_code = 404)
              => clientResult = Returned("None")
        /\ clientResult.kind = "raise" => clientResult.exc = "APIError"

\* Witness of C10: get_all_songs met a 500 whose body is a JSON object and
\* raised APIError
C10_Witness ==
    /\ clientCall.op = "get_all_songs"
    /\ clientCall.transport.kind = "response"
    /\ clientCall.transport.status_code = 500
    /\ clientCall.transport.json = "object"
    /\ IsAPIError(clientResult)

----------------------------------------------------------------------------
(* Routing of a message, checked under Spec *)

\* The message asks for a recommendation the agent can look up: a keyword is
\* in the lower-cased message and the quoted pattern or the "similar to"
\* pattern matches
Routed(input) ==
    /\ \E w \in Keywords : Contains(Lower(input), w)
    /\ \/ FindAllQuoted(input, 1) # <<>>
       \/ SimilarSearch(Lower(input)).found

\* C11: in a Ready agent the backend is called, exactly once and with top_n
\* 5, if and only if the message has a keyword and one of the two extractions
\* succeeds; every other message takes the general-chat path: exactly one LLM
\* call, on the raw message, and no backend call.
C11_Routing ==
    (Ready /\ Replied) =>
        /\ Routed(user_input)
              => /\ Len(outcome.backend_calls) = 1
                 /\ outcome.backend_calls[1].top_n = TopN
        /\ ~Routed(user_input)
              => /\ outcome.backend_calls = <<>>
                 /\ outcome.llm_calls =
                        <<[system |-> GeneralSystem, user |-> user_input]>>

\* Witness of C11: a message with a quoted text but no keyword went to
\* general chat
C11_Witness ==
    /\ Ready /\ Replied
    /\ FindAllQuoted(user_input, 1) # <<>>
    /\ ~HasKeyword(user_input)
    /\ outcome.backend_calls = <<>>
    /\ Len(outcome.llm_calls) = 1

----------------------------------------------------------------------------
(* The UI session's chat history: the AI Assistant mode of app.py, in a    *)
(* session whose health check found the agent ready, so that the chat      *)
(* input is shown                                                          *)

\* What the user types into st.chat_input
Prompts == {"hi", "recommend 'A'"}

ChatMessage(role, content) == [role |-> role, content |-> content]

\* The handler of a submitted prompt, api_client.chat_with_assistant ending
\* as r: the user entry is appended before the call; the assistant entry is
\* appended only if the call returns; if it raises, st.error shows the text
ChatSubmission(history, prompt, r) ==
    LET withUser == Append(history, ChatMessage("user", prompt))
    IN  IF r.kind = "return"
        THEN [history |-> Append(withUser, ChatMessage("assistant", r.value)),
              error |-> ""]
        ELSE [history |-> withUser, error |-> "Chat error: "]

InitUi ==
    /\ chat_history = <<>>
    /\ ui_error = ""
    /\ AgentIdle /\ CleanIdle /\ ApiIdle /\ ClientIdle

\* The user submits a prompt, whatever the request to the API does
SubmitPrompt ==
    /\ Len(chat_history) < MaxHistory
    /\ \E prompt \in Prompts, t \in Transports :
          LET done == ChatSubmission(chat_history, prompt,
                                     client_chat_with_assistant(t))
          IN  /\ chat_history' = done.history
              /\ ui_error' = done.error
    /\ UNCHANGED <<agentVars, cleanVars, apiVars, clientVars>>

NextUi == SubmitPrompt

SpecUi == InitUi /\ [][NextUi]_vars

\* C12: the chat history alternates user, assistant, user, assistant: every
\* user entry is followed by its assistant entry, also after a submission
\* whose call to the API failed, so the history never holds two consecutive
\* user entries and never ends with an unanswered user entry.
C12_HistoryAlternates ==
    /\ Len(chat_history) % 2 = 0
    /\ \A i \in 1..Len(chat_history) :
          chat_history[i].role = IF i % 2 = 1 THEN "user" ELSE "assistant"

\* The history is append-only: a step never changes or drops an entry
HistoryAppendOnly ==
    [][/\ Len(chat_history') >= Len(chat_history)
       /\ SubSeq(chat_history', 1, Len(chat_history)) = chat_history]_vars

----------------------------------------------------------------------------
(* Cleaning applied to its own result, checked under SpecClean *)

\* s holds a "<think>" tag followed later by a "</think>" tag
HasThinkPair(s) ==
    \E i \in 1..Len(s), j \in 1..Len(s) :
        /\ MatchAt(s, OpenTag, i)
        /\ MatchAt(s, CloseTag, j)
        /\ j >= i + Len(OpenTag)

\* C13: cleaning is idempotent and complete: cleaning a cleaned completion
\* changes nothing, and a cleaned completion never holds a "<think>" tag
\* followed later by a "</think>" tag, also when the tags of the completion
\* are nested or overlap.
C13_CleanIdempotentComplete ==
    cleaned.done =>
        /\ _clean_thinking_tags(cleaned.text) = cleaned.text
        /\ ~HasThinkPair(cleaned.text)

====
